---- MODULE Spec2Model ----
(***************************************************************************)
(* Repair-loop state machine of the Self-Healing Code Agent.               *)
(*                                                                         *)
(* The run state is the AgentState dictionary of src/agent/state.py.  A    *)
(* node of the graph of src/agent/graph.py is an operator that maps the    *)
(* state (and the value returned by the model call or the sandbox) to the  *)
(* partial dictionary the node returns; the graph merges that dictionary   *)
(* into the state and follows the edge or the conditional edge of the      *)
(* node.  stream_agent consumes one update per completed node.             *)
(*                                                                         *)
(* The components around the loop are modelled on their own, each with    *)
(* its own variable and specification: one LLMRouter.call (RouterSpec),    *)
(* one sandbox execute with its child process and temp file (SandboxSpec), *)
(* parse_and_validate on texts of atoms (ValidatorSpec), one run_benchmark *)
(* with its semaphore (BenchmarkSpec), one HuggingFaceProvider and the     *)
(* infer calls on it (ProviderSpec), and one EventBus with its subscriber  *)
(* queues (BusSpec).  FaultSpec is the loop with model calls that raise.   *)
(*                                                                         *)
(* Abstractions: source text, test text and diagnosis text are drawn from  *)
(* small sets of strings; a lesson is a natural number; an event keeps its *)
(* type and its iteration and, for a diagnosis event, its payload (message *)
(* and timestamp are left out).                                            *)
(***************************************************************************)
EXTENDS Integers, Sequences, FiniteSets, TLC

\* ---------------------------------------------------------------- bounds
MaxIter == 3
MaxLessons == 6
MaxText == 4
MaxTasks == 3
MaxConcurrency == 2
MaxCalls == 3
MaxSubscribers == 2
MaxCloses == 2
\* maxsize of a subscriber queue: 256 in the source, scaled down
_QUEUE_MAXSIZE == 2

\* ------------------------------------------------------ program constants
LessonCap == 5

STEP == "step"
CODE_GENERATED == "code_generated"
FAILURE == "failure"
LEARNING_UPDATE == "learning_update"
SUCCESS == "success"
TESTS_GENERATED == "tests_generated"
DIAGNOSIS == "diagnosis"

END == "__end__"

\* ---------------------------------------------------------------- inputs
\* diagnosis returned by the debugger role
Diagnoses ==
    { [root_cause |-> "", failure_category |-> "other", repair_strategy |-> "none"],
      [root_cause |-> "rcA", failure_category |-> "logic_error", repair_strategy |-> "fixA"],
      [root_cause |-> "rcB", failure_category |-> "edge_case", repair_strategy |-> "fixB"] }
\* value returned by the memory_summarizer role: n lessons, oldest first,
\* or a value without the key "lessons"
SummarizerResults ==
    { [lessons |-> [i \in 1..n |-> i]] : n \in 0..MaxLessons }
        \cup { [note |-> "no lessons key"] }
\* ExecutionResult of the sandbox, reduced to its verdict and its summary
ExecutionResults ==
    { [passed |-> TRUE, summary |-> "All tests passed."],
      [passed |-> FALSE, summary |-> "failed"] }

VARIABLES
    state,        \* AgentState
    pc,           \* the node that runs next, END when the graph has ended
    total_seen,   \* stream_agent: number of events seen so far
    yielded,      \* stream_agent: events yielded so far
    prev,         \* history variable: the node that ran last ("" at start)
    executions,   \* history variable: completed sandbox executions
    last_result,  \* history variable: value of the last model call (and
                  \* the template key of the call, for generate_solution)
    router,       \* one LLMRouter.call: its locals and its outcome
    sandbox,      \* one sandbox execute: its position, child and temp file
    validator,    \* the call of parse_and_validate on record
    benchmark,    \* one run_benchmark: its semaphore and its task runs
    provider,     \* one HuggingFaceProvider and the infer calls on it
    bus           \* one EventBus, its subscribers and their queues

vars == <<state, pc, total_seen, yielded, prev, executions, last_result,
          router, sandbox, validator, benchmark, provider, bus>>

\* the variables of the repair loop
loop_vars == <<state, pc, total_seen, yielded, prev, executions, last_result>>


\* ------------------------------------------------------------- helpers
Last(s) == s[Len(s)]

IsPrefix(s, t) == /\ Len(s) <= Len(t)
                  /\ \A i \in 1..Len(s) : s[i] = t[i]

\* Python slice seq[:n]
Take(s, n) == SubSeq(s, 1, IF Len(s) < n THEN Len(s) ELSE n)

\* Python slice seq[n:]
Drop(s, n) == SubSeq(s, n + 1, Len(s))

\* the graph merges the partial dictionary a node returns into the state
Merge(s, upd) == [k \in DOMAIN s |-> IF k \in DOMAIN upd THEN upd[k] ELSE s[k]]

\* ------------------------------------------------------------- events
step_event(iteration) == [type |-> STEP, iteration |-> iteration]

code_generated_event(iteration) == [type |-> CODE_GENERATED, iteration |-> iteration]

tests_generated_event(iteration) == [type |-> TESTS_GENERATED, iteration |-> iteration]

failure_event(iteration) == [type |-> FAILURE, iteration |-> iteration]

success_event(iteration) == [type |-> SUCCESS, iteration |-> iteration]

\* the diagnosis event keeps its payload
diagnosis_event(root_cause, category, strategy, iteration) ==
    [ type |-> DIAGNOSIS, iteration |-> iteration,
      payload |-> [ root_cause |-> root_cause, failure_category |-> category,
                    repair_strategy |-> strategy ] ]

learning_update_event(iteration) == [type |-> LEARNING_UPDATE, iteration |-> iteration]

\* ------------------------------------------------------------- state
_make_initial_state(max_iterations) ==
    [ max_iterations |-> max_iterations,
      current_code |-> "",
      current_test_code |-> "",
      last_execution_passed |-> FALSE,
      last_failure_summary |-> "",
      root_cause |-> "",
      failure_category |-> "",
      repair_strategy |-> "",
      learning_log |-> <<>>,
      iteration |-> 0,
      iteration_history |-> <<>>,
      status |-> "running",
      events |-> <<>> ]

\* ------------------------------------------------------------- nodes
\* mutant of template_key: every iteration after the first is a repair
template_key_every_repair(s) ==
    IF s.iteration > 0 THEN "repair" ELSE "initial"

\* the template generate_solution passes to the router: is_repair is the
\* truth value of iteration > 0 and current_code and root_cause
template_key(s) ==
    IF s.iteration > 0 /\ s.current_code # "" /\ s.root_cause # ""
    THEN "repair" ELSE "initial"

generate_solution(s, result) ==
    [ current_code |-> result.code,
      events |-> s.events \o <<step_event(s.iteration), code_generated_event(s.iteration)>> ]

create_adversarial_tests(s, result) ==
    [ current_test_code |-> result.test_code,
      events |-> s.events \o <<step_event(s.iteration), tests_generated_event(s.iteration)>> ]

\* mutants of execute_solution: the status stays "running" on a pass; the
\* history is replaced by the new record instead of being appended to
execute_solution_status_running(s, result) ==
    [ last_execution_passed |-> result.passed,
      last_failure_summary |-> result.summary,
      iteration_history |-> Append(s.iteration_history,
            [ iteration |-> s.iteration, code |-> s.current_code,
              test_code |-> s.current_test_code, passed |-> result.passed,
              failure_summary |-> result.summary, root_cause |-> s.root_cause,
              failure_category |-> s.failure_category,
              repair_strategy |-> s.repair_strategy ]),
      status |-> "running",
      events |-> s.events \o
                 << step_event(s.iteration),
                    IF result.passed THEN success_event(s.iteration)
                                     ELSE failure_event(s.iteration) >> ]

execute_solution_history_replaced(s, result) ==
    [ last_execution_passed |-> result.passed,
      last_failure_summary |-> result.summary,
      iteration_history |->
          << [ iteration |-> s.iteration, code |-> s.current_code,
               test_code |-> s.current_test_code, passed |-> result.passed,
               failure_summary |-> result.summary, root_cause |-> s.root_cause,
               failure_category |-> s.failure_category,
               repair_strategy |-> s.repair_strategy ] >>,
      status |-> IF result.passed THEN "success" ELSE "running",
      events |-> s.events \o
                 << step_event(s.iteration),
                    IF result.passed THEN success_event(s.iteration)
                                     ELSE failure_event(s.iteration) >> ]

\* mutant of execute_solution: a failure adds no failure event
execute_solution_failure_silent(s, result) ==
    [ last_execution_passed |-> result.passed,
      last_failure_summary |-> result.summary,
      iteration_history |-> Append(s.iteration_history,
            [ iteration |-> s.iteration, code |-> s.current_code,
              test_code |-> s.current_test_code, passed |-> result.passed,
              failure_summary |-> result.summary, root_cause |-> s.root_cause,
              failure_category |-> s.failure_category,
              repair_strategy |-> s.repair_strategy ]),
      status |-> IF result.passed THEN "success" ELSE "running",
      events |-> s.events \o
                 (IF result.passed
                  THEN <<step_event(s.iteration), success_event(s.iteration)>>
                  ELSE <<step_event(s.iteration)>>) ]

\* mutant of execute_solution: the record carries no diagnosis
execute_solution_record_undiagnosed(s, result) ==
    [ last_execution_passed |-> result.passed,
      last_failure_summary |-> result.summary,
      iteration_history |-> Append(s.iteration_history,
            [ iteration |-> s.iteration, code |-> s.current_code,
              test_code |-> s.current_test_code, passed |-> result.passed,
              failure_summary |-> result.summary, root_cause |-> "",
              failure_category |-> "", repair_strategy |-> "" ]),
      status |-> IF result.passed THEN "success" ELSE "running",
      events |-> s.events \o
                 << step_event(s.iteration),
                    IF result.passed THEN success_event(s.iteration)
                                     ELSE failure_event(s.iteration) >> ]

execute_solution(s, result) ==
    LET iteration_record ==
            [ iteration |-> s.iteration,
              code |-> s.current_code,
              test_code |-> s.current_test_code,
              passed |-> result.passed,
              failure_summary |-> result.summary,
              root_cause |-> s.root_cause,
              failure_category |-> s.failure_category,
              repair_strategy |-> s.repair_strategy ]
    IN  [ last_execution_passed |-> result.passed,
          last_failure_summary |-> result.summary,
          iteration_history |-> Append(s.iteration_history, iteration_record),
          status |-> IF result.passed THEN "success" ELSE "running",
          events |-> s.events \o
                     << step_event(s.iteration),
                        IF result.passed THEN success_event(s.iteration)
                                         ELSE failure_event(s.iteration) >> ]

\* mutant of diagnose_failure: the diagnosed solution is cleared
diagnose_failure_clears_code(s, result) ==
    [ root_cause |-> result.root_cause,
      failure_category |-> result.failure_category,
      repair_strategy |-> result.repair_strategy,
      current_code |-> "",
      events |-> s.events \o
                 << step_event(s.iteration),
                    diagnosis_event(result.root_cause, result.failure_category,
                                    result.repair_strategy, s.iteration) >> ]

diagnose_failure(s, result) ==
    [ root_cause |-> result.root_cause,
      failure_category |-> result.failure_category,
      repair_strategy |-> result.repair_strategy,
      events |-> s.events \o
                 << step_event(s.iteration),
                    diagnosis_event(result.root_cause, result.failure_category,
                                    result.repair_strategy, s.iteration) >> ]

\* mutants of update_learning_log: the early return carries only the new
\* event; the lessons are stored without the cap
update_learning_log_events_replaced(s, result) ==
    IF s.root_cause = ""
    THEN [ events |-> <<step_event(s.iteration)>> ]
    ELSE LET lessons == IF "lessons" \in DOMAIN result THEN result.lessons
                                                        ELSE s.learning_log
         IN  [ learning_log |-> Take(lessons, LessonCap),
               events |-> s.events \o
                          <<step_event(s.iteration), learning_update_event(s.iteration)>> ]

update_learning_log_uncapped(s, result) ==
    IF s.root_cause = ""
    THEN [ events |-> Append(s.events, step_event(s.iteration)) ]
    ELSE LET lessons == IF "lessons" \in DOMAIN result THEN result.lessons
                                                        ELSE s.learning_log
         IN  [ learning_log |-> lessons,
               events |-> s.events \o
                          <<step_event(s.iteration), learning_update_event(s.iteration)>> ]

update_learning_log(s, result) ==
    IF s.root_cause = ""
    THEN [ events |-> Append(s.events, step_event(s.iteration)) ]
    ELSE LET lessons == IF "lessons" \in DOMAIN result THEN result.lessons
                                                        ELSE s.learning_log
         IN  [ learning_log |-> Take(lessons, LessonCap),
               events |-> s.events \o
                          <<step_event(s.iteration), learning_update_event(s.iteration)>> ]

\* mutant of _increment_iteration: the budget is reached one iteration late
_increment_iteration_one_late(s) ==
    LET new_iteration == s.iteration + 1
    IN  IF new_iteration > s.max_iterations
        THEN [iteration |-> new_iteration, status |-> "max_iterations_reached"]
        ELSE [iteration |-> new_iteration, status |-> "running"]

_increment_iteration(s) ==
    LET new_iteration == s.iteration + 1
    IN  IF new_iteration >= s.max_iterations
        THEN [iteration |-> new_iteration, status |-> "max_iterations_reached"]
        ELSE [iteration |-> new_iteration, status |-> "running"]

\* mutant of max_iterations_node: the status the docstring of
\* _route_after_execution names ("END (with failed status)")
max_iterations_node_failed(s) == [status |-> "failed"]

max_iterations_node(s) == [status |-> "max_iterations_reached"]

\* ------------------------------------------------------------- routing
\* mutants of _route_after_execution: no check of the iteration budget; the
\* budget is checked before the verdict
_route_after_execution_no_budget(s) ==
    IF s.last_execution_passed THEN END ELSE "diagnose_failure"

_route_after_execution_budget_first(s) ==
    IF s.iteration >= s.max_iterations THEN "max_iterations"
    ELSE IF s.last_execution_passed THEN END
    ELSE "diagnose_failure"

\* mutant of _route_after_execution: the last iteration of the budget goes
\* to the max_iterations node without diagnosis
_route_after_execution_last_undiagnosed(s) ==
    IF s.last_execution_passed THEN END
    ELSE IF s.iteration + 1 >= s.max_iterations THEN "max_iterations"
    ELSE "diagnose_failure"

_route_after_execution(s) ==
    IF s.last_execution_passed THEN END
    ELSE IF s.status = "max_iterations_reached" THEN "max_iterations"
    ELSE IF s.iteration >= s.max_iterations THEN "max_iterations"
    ELSE "diagnose_failure"

_route_after_increment(s) ==
    IF s.status = "max_iterations_reached" THEN END ELSE "generate_solution"

\* mutant of build_graph: the repair loop is wired diagnose -> increment ->
\* memory instead of diagnose -> memory -> increment
build_graph_increment_before_memory(node, s) ==
    CASE node = "generate_solution" -> "create_adversarial_tests"
      [] node = "create_adversarial_tests" -> "execute_solution"
      [] node = "execute_solution" -> _route_after_execution(s)
      [] node = "diagnose_failure" -> "increment_iteration"
      [] node = "increment_iteration" -> "update_learning_log"
      [] node = "update_learning_log" -> _route_after_increment(s)
      [] node = "max_iterations" -> END

\* edges of build_graph; s is the state after the node's update was merged
build_graph(node, s) ==
    CASE node = "generate_solution" -> "create_adversarial_tests"
      [] node = "create_adversarial_tests" -> "execute_solution"
      [] node = "execute_solution" -> _route_after_execution(s)
      [] node = "diagnose_failure" -> "update_learning_log"
      [] node = "update_learning_log" -> "increment_iteration"
      [] node = "increment_iteration" -> _route_after_increment(s)
      [] node = "max_iterations" -> END

\* ------------------------------------------------------------- streaming
\* mutant of stream_agent: total_seen counts the events of the last update
\* that were new
stream_agent_counts_new(seen, upd) ==
    IF "events" \notin DOMAIN upd THEN <<seen, <<>> >>
    ELSE IF upd.events = <<>> THEN <<seen, <<>> >>
    ELSE <<Len(Drop(upd.events, seen)), Drop(upd.events, seen)>>

\* body of the loop of stream_agent for the update of one node:
\* <<new total_seen, events to yield>>
stream_agent(seen, upd) ==
    IF "events" \notin DOMAIN upd THEN <<seen, <<>> >>
    ELSE IF upd.events = <<>> THEN <<seen, <<>> >>
    ELSE <<Len(upd.events), Drop(upd.events, seen)>>

\* one superstep: node ran and returned upd
RunNode(node, upd) ==
    /\ pc = node
    /\ state' = Merge(state, upd)
    /\ pc' = build_graph(node, state')
    /\ total_seen' = stream_agent(total_seen, upd)[1]
    /\ yielded' = yielded \o stream_agent(total_seen, upd)[2]
    /\ prev' = node
    /\ UNCHANGED <<router, sandbox, validator, benchmark, provider, bus>>

\* ---------------------------------------------------------- streaming
\* mutant of PUBLIC_EVENT_TYPES: the type added last is missing
PUBLIC_EVENT_TYPES_without_tests ==
    {STEP, CODE_GENERATED, FAILURE, LEARNING_UPDATE, SUCCESS, DIAGNOSIS}

PUBLIC_EVENT_TYPES ==
    {STEP, CODE_GENERATED, FAILURE, LEARNING_UPDATE, SUCCESS, DIAGNOSIS, TESTS_GENERATED}

\* the timeline entry of an event: its iteration prefix and the wording of
\* its type (the wording of a step for a type that has none of its own)
format_event_for_timeline(event) ==
    [ prefix |-> event.iteration,
      wording |-> IF event.type \in {CODE_GENERATED, TESTS_GENERATED, FAILURE,
                                     DIAGNOSIS, LEARNING_UPDATE, SUCCESS}
                  THEN event.type ELSE STEP ]

\* the events stream_events_for_ui yields for an event stream: it stops at
\* None, skips the types that are not public unless include_internal, and
\* adds display_text
RECURSIVE stream_events_for_ui(_, _)
stream_events_for_ui(event_stream, include_internal) ==
    IF event_stream = <<>> THEN <<>>
    ELSE LET event == Head(event_stream)
             \* the None that ends an event stream
             NoneEvent == [type |-> "None", iteration |-> 0 - 1]
         IN  IF event = NoneEvent THEN <<>>
             ELSE IF ~include_internal /\ event.type \notin PUBLIC_EVENT_TYPES
             THEN stream_events_for_ui(Tail(event_stream), include_internal)
             ELSE << [type |-> event.type, iteration |-> event.iteration,
                      display_text |-> format_event_for_timeline(event)] >>
                  \o stream_events_for_ui(Tail(event_stream), include_internal)

\* ---------------------------------------------------------- validator
\* A text is a sequence of atoms: each character the validator or the JSON
\* parser tells apart is an atom of its own ({ } [ ] " \ : , space, digit),
\* and so is each run of other characters (a word).  "fence" stands for the
\* three backquotes of a markdown fence.

SetMin(S) == CHOOSE i \in S : \A j \in S : i <= j

\* str.strip()
strip(text) ==
    LET solid == { i \in 1..Len(text) : text[i] # " " }
        last == CHOOSE i \in solid : \A j \in solid : j <= i
    IN  IF solid = {} THEN <<>> ELSE SubSeq(text, SetMin(solid), last)

\* the first fence that is followed by another fence opens the match; the
\* group is what lies between the two, after an optional json tag, without
\* the white space around it
_strip_markdown_fences(text) ==
    LET fences == { i \in 1..Len(text) : text[i] = "fence" }
    IN  IF Cardinality(fences) < 2 THEN strip(text)
        ELSE LET open == SetMin(fences)
                 close == SetMin(fences \ {open})
                 inner == SubSeq(text, open + 1, close - 1)
                 group == IF inner # <<>> /\ inner[1] = "json"
                          THEN Tail(inner) ELSE inner
             IN  strip(group)

\* the inner loop of _extract_json_object from index i on: the index of the
\* end_char that brings depth back to 0, or 0 when the text ends before
RECURSIVE walk(_, _, _, _, _, _, _)
walk(text, i, start_char, end_char, depth, in_string, escape_next) ==
    IF i > Len(text) THEN 0
    ELSE LET ch == text[i]
         IN  IF escape_next
             THEN walk(text, i + 1, start_char, end_char, depth, in_string, FALSE)
             ELSE IF ch = "\\" /\ in_string
             THEN walk(text, i + 1, start_char, end_char, depth, in_string, TRUE)
             ELSE IF ch = "\""
             THEN walk(text, i + 1, start_char, end_char, depth, ~in_string, FALSE)
             ELSE IF in_string
             THEN walk(text, i + 1, start_char, end_char, depth, in_string, FALSE)
             ELSE IF ch = start_char
             THEN walk(text, i + 1, start_char, end_char, depth + 1, in_string, FALSE)
             ELSE IF ch = end_char
             THEN IF depth - 1 = 0 THEN i
                  ELSE walk(text, i + 1, start_char, end_char, depth - 1, in_string, FALSE)
             ELSE walk(text, i + 1, start_char, end_char, depth, in_string, FALSE)

\* one pass of the outer loop: the span found for one pair of delimiters
span_of(text, start_char, end_char) ==
    LET at == { i \in 1..Len(text) : text[i] = start_char }
        \* text.find(start_char): the first index, 0 when there is none
        idx == IF at = {} THEN 0 ELSE SetMin(at)
        stop == IF idx = 0 THEN 0
                ELSE walk(text, idx, start_char, end_char, 0, FALSE, FALSE)
    IN  [found |-> stop # 0, first |-> idx, last |-> stop]

\* braces are tried before brackets; the text itself when neither balances
_extract_json_object(text) ==
    LET brace == span_of(text, "{", "}")
        bracket == span_of(text, "[", "]")
    IN  IF brace.found THEN SubSeq(text, brace.first, brace.last)
        ELSE IF bracket.found THEN SubSeq(text, bracket.first, bracket.last)
        ELSE text

\* A parsed JSON value.  str holds the characters of a string or a number;
\* items holds the elements of an array, or the [key, value] pairs of an
\* object in insertion order.
JValue(kind, str, items) == [kind |-> kind, str |-> str, items |-> items]
JString(chars) == JValue("string", chars, <<>>)
JNull == JValue("null", <<>>, <<>>)

\* dict.get(key): the value under key, JNull when the key is absent
dict_has(obj, key) == \E i \in 1..Len(obj.items) : obj.items[i].key = key
dict_get(obj, key) ==
    IF dict_has(obj, key)
    THEN obj.items[CHOOSE i \in 1..Len(obj.items) : obj.items[i].key = key].value
    ELSE JNull

\* pairs[key] = value: a key that is there keeps its place
set_item(pairs, key, value) ==
    IF \E i \in 1..Len(pairs) : pairs[i].key = key
    THEN [i \in 1..Len(pairs) |->
             IF pairs[i].key = key THEN [key |-> key, value |-> value] ELSE pairs[i]]
    ELSE Append(pairs, [key |-> key, value |-> value])

\* json.loads(text, strict=False), for the JSON these atoms can spell:
\* objects, arrays, strings with the escapes \" and \\, numbers of digits,
\* true and null.  A scan gives [ok, value, next]: next is the index after
\* the value.
ScanFail == [ok |-> FALSE, value |-> JNull, next |-> 0]
ScanOk(value, next) == [ok |-> TRUE, value |-> value, next |-> next]

RECURSIVE skip_ws(_, _)
skip_ws(t, i) == IF i <= Len(t) /\ t[i] = " " THEN skip_ws(t, i + 1) ELSE i

\* the characters of a string whose opening quote is at i - 1
RECURSIVE scanstring(_, _, _)
scanstring(t, i, acc) ==
    IF i > Len(t) THEN ScanFail
    ELSE IF t[i] = "\"" THEN ScanOk(JString(acc), i + 1)
    ELSE IF t[i] = "\\"
    THEN IF i + 1 <= Len(t) /\ t[i + 1] \in {"\"", "\\"}
         THEN scanstring(t, i + 2, Append(acc, t[i + 1]))
         ELSE ScanFail
    ELSE scanstring(t, i + 1, Append(acc, t[i]))

RECURSIVE scan_digits(_, _)
scan_digits(t, i) == IF i <= Len(t) /\ t[i] = "1" THEN scan_digits(t, i + 1) ELSE i

RECURSIVE scan_once(_, _)
RECURSIVE JSONObject(_, _, _)
RECURSIVE JSONArray(_, _, _)

\* the pairs of an object from index i on, where a key must start
JSONObject(t, i, pairs) ==
    IF i > Len(t) \/ t[i] # "\"" THEN ScanFail
    ELSE LET key == scanstring(t, i + 1, <<>>)
             colon == skip_ws(t, key.next)
             value == scan_once(t, skip_ws(t, colon + 1))
             after == skip_ws(t, value.next)
             pairs1 == set_item(pairs, key.value.str, value.value)
         IN  IF ~key.ok THEN ScanFail
             ELSE IF colon > Len(t) \/ t[colon] # ":" THEN ScanFail
             ELSE IF ~value.ok THEN ScanFail
             ELSE IF after > Len(t) THEN ScanFail
             ELSE IF t[after] = "}" THEN ScanOk(JValue("object", <<>>, pairs1), after + 1)
             ELSE IF t[after] = "," THEN JSONObject(t, skip_ws(t, after + 1), pairs1)
             ELSE ScanFail

\* the elements of an array from index i on, where a value must start
JSONArray(t, i, items) ==
    LET value == scan_once(t, i)
        after == skip_ws(t, value.next)
        items1 == Append(items, value.value)
    IN  IF ~value.ok THEN ScanFail
        ELSE IF after > Len(t) THEN ScanFail
        ELSE IF t[after] = "]" THEN ScanOk(JValue("array", <<>>, items1), after + 1)
        ELSE IF t[after] = "," THEN JSONArray(t, skip_ws(t, after + 1), items1)
        ELSE ScanFail

\* the value that starts at index i
scan_once(t, i) ==
    IF i > Len(t) THEN ScanFail
    ELSE LET inside == skip_ws(t, i + 1)
         IN  CASE t[i] = "\"" -> scanstring(t, i + 1, <<>>)
               [] t[i] = "{" ->
                    IF inside <= Len(t) /\ t[inside] = "}"
                    THEN ScanOk(JValue("object", <<>>, <<>>), inside + 1)
                    ELSE JSONObject(t, inside, <<>>)
               [] t[i] = "[" ->
                    IF inside <= Len(t) /\ t[inside] = "]"
                    THEN ScanOk(JValue("array", <<>>, <<>>), inside + 1)
                    ELSE JSONArray(t, inside, <<>>)
               [] t[i] = "1" -> ScanOk(JValue("integer", SubSeq(t, i, scan_digits(t, i) - 1), <<>>),
                                       scan_digits(t, i))
               [] t[i] = "true" -> ScanOk(JValue("boolean", <<"true">>, <<>>), i + 1)
               [] t[i] = "null" -> ScanOk(JNull, i + 1)
               [] OTHER -> ScanFail

\* one value with white space around it and nothing else, or JSONDecodeError
json_loads(t) ==
    LET r == scan_once(t, skip_ws(t, 1))
    IN  IF r.ok /\ skip_ws(t, r.next) = Len(t) + 1
        THEN [ok |-> TRUE, value |-> r.value]
        ELSE [ok |-> FALSE, value |-> JNull]

\* json.dumps(value): ", " between items, ": " after a key, quotes and
\* backslashes of a string escaped
RECURSIVE escape(_)
escape(chars) ==
    IF chars = <<>> THEN <<>>
    ELSE (IF Head(chars) \in {"\"", "\\"} THEN <<"\\", Head(chars)>> ELSE <<Head(chars)>>)
         \o escape(Tail(chars))

RECURSIVE json_dumps(_)
RECURSIVE dumps_items(_, _)
dumps_items(items, is_object) ==
    IF items = <<>> THEN <<>>
    ELSE (IF is_object
          THEN <<"\"">> \o escape(Head(items).key) \o <<"\"", ":", " ">>
               \o json_dumps(Head(items).value)
          ELSE json_dumps(Head(items)))
         \o (IF Tail(items) = <<>> THEN <<>> ELSE <<",", " ">>)
         \o dumps_items(Tail(items), is_object)

json_dumps(value) ==
    CASE value.kind = "string" -> <<"\"">> \o escape(value.str) \o <<"\"">>
      [] value.kind = "integer" -> value.str
      [] value.kind = "boolean" -> value.str
      [] value.kind = "null" -> <<"null">>
      [] value.kind = "array" -> <<"[">> \o dumps_items(value.items, FALSE) \o <<"]">>
      [] value.kind = "object" -> <<"{">> \o dumps_items(value.items, TRUE) \o <<"}">>

\* A JSON schema, reduced to the keywords the schemas of the roles use:
\* type, required and the [name, type] of each property.  EmptySchema is {}.
Schema(type, required, properties) ==
    [type |-> type, required |-> required, properties |-> properties]

EmptySchema == Schema("", <<>>, <<>>)
\* _SIMPLE_SCHEMA of the tests
SimpleSchema ==
    Schema("object", << <<"code">> >>,
           << [name |-> <<"code">>, type |-> "string"],
              [name |-> <<"explanation">>, type |-> "string"] >>)
\* the schemas of the calls; the last has no required string field
Schemas ==
    { EmptySchema, SimpleSchema,
      Schema("object", << <<"x">> >>, << [name |-> <<"x">>, type |-> "integer"] >>) }

InSeq(x, s) == \E i \in 1..Len(s) : s[i] = x

\* the names of the properties of type string that are required
required_string_fields(schema) ==
    LET wanted == SelectSeq(schema.properties,
                            LAMBDA p : p.type = "string" /\ InSeq(p.name, schema.required))
    IN  [i \in 1..Len(wanted) |-> wanted[i].name]


\* mutant of _coerce_parsed: every value that is not a string is serialised
_coerce_parsed_every_type(parsed, schema) ==
    IF required_string_fields(schema) = <<>>
    THEN [error |-> "", value |-> parsed]
    ELSE IF parsed.kind # "object"
    THEN [error |-> "AttributeError", value |-> JNull]
    ELSE [error |-> "",
          value |-> JValue("object", <<>>, [i \in 1..Len(parsed.items) |->
              IF /\ InSeq(parsed.items[i].key, required_string_fields(schema))
                 /\ parsed.items[i].value.kind # "string"
              THEN [key |-> parsed.items[i].key,
                    value |-> JString(json_dumps(parsed.items[i].value))]
              ELSE parsed.items[i]])]

\* parsed.get(field) for each required string field: an AttributeError when
\* parsed is not a dict and there is such a field; a dict or list under the
\* field is replaced by json.dumps of it
_coerce_parsed(parsed, schema) ==
    IF required_string_fields(schema) = <<>>
    THEN [error |-> "", value |-> parsed]
    ELSE IF parsed.kind # "object"
    THEN [error |-> "AttributeError", value |-> JNull]
    ELSE [error |-> "",
          value |-> JValue("object", <<>>, [i \in 1..Len(parsed.items) |->
              IF /\ InSeq(parsed.items[i].key, required_string_fields(schema))
                 /\ parsed.items[i].value.kind \in {"object", "array"}
              THEN [key |-> parsed.items[i].key,
                    value |-> JString(json_dumps(parsed.items[i].value))]
              ELSE parsed.items[i]])]

\* jsonschema.validate(instance, schema): TRUE when no ValidationError
validate(instance, schema) ==
    LET \* the type keyword
        is_type(value, type) ==
            IF type = "number" THEN value.kind = "integer" ELSE value.kind = type
    IN
    /\ schema.type # "" => is_type(instance, schema.type)
    /\ instance.kind = "object" =>
          /\ \A i \in 1..Len(schema.required) : dict_has(instance, schema.required[i])
          /\ \A i \in 1..Len(schema.properties) :
                dict_has(instance, schema.properties[i].name) =>
                    is_type(dict_get(instance, schema.properties[i].name),
                            schema.properties[i].type)

\* the outcome of parse_and_validate: the returned value, or the error raised
\* and, for a StructuredOutputError, the raw text it carries
Returned(value) == [ok |-> TRUE, value |-> value, error |-> "", raw_text |-> <<>>]
Raised(error, raw_text) ==
    [ok |-> FALSE, value |-> JNull, error |-> error, raw_text |-> raw_text]

parse_and_validate(raw_text, schema) ==
    LET cleaned == _strip_markdown_fences(raw_text)
        extracted == _extract_json_object(cleaned)
        parsed == json_loads(extracted)
        coerced == _coerce_parsed(parsed.value, schema)
    IN  IF ~parsed.ok THEN Raised("StructuredOutputError", raw_text)
        ELSE IF schema = EmptySchema THEN Returned(parsed.value)
        ELSE IF coerced.error # "" THEN Raised(coerced.error, <<>>)
        ELSE IF ~validate(coerced.value, schema)
        THEN Raised("StructuredOutputError", raw_text)
        ELSE Returned(coerced.value)

\* raw texts of a model: a JSON text or something else, bare or inside a
\* markdown fence, with or without prose around it
RawTexts ==
    LET Quoted(word) == <<"\"", word, "\"">>
        Member(key, value) == Quoted(key) \o <<":">> \o value
        Braces(members) == <<"{">> \o members \o <<"}">>
        Bodies ==
              { Braces(Member("code", Quoted("x"))),
              Braces(Member("code", Quoted("x")) \o <<",", " ">>
              \o Member("explanation", Quoted("x"))),
              Braces(Member("code", Braces(Member("x", <<"1">>)))),
              Braces(Member("code", <<"[", "1", ",", " ">> \o Quoted("x") \o <<"]">>)),
              Braces(Member("code", <<"[", "]">>) \o <<",">> \o Member("explanation", <<"1">>)),
              Braces(Member("code", <<"1">>)),
              Braces(Member("code", <<"true">>)),
              Braces(Member("code", <<"null">>)),
              Braces(Member("explanation", Quoted("x"))),
              Braces(Member("x", <<"1", "1">>)),
              Braces(Member("code", Quoted("}"))),
              Braces(Member("code", <<"\"", "\\", "\"", "}", "\"">>)),
              <<"{">> \o Member("code", Quoted("x")),
              <<"[", "1", "]">>,
              <<"[">> \o Braces(Member("code", Quoted("x"))) \o <<"]">>,
              Quoted("x"),
              <<"1">>,
              <<"null">>,
              <<"x">>,
              <<>> }
        Prefixes == { <<>>, <<"x", " ">> }
        Suffixes == { <<>>, <<" ", "x">> }
    IN  { p \o b \o s : p \in Prefixes, b \in Bodies, s \in Suffixes } \cup
        { p \o <<"fence", "json", " ">> \o b \o <<" ", "fence">> \o s :
              p \in Prefixes, b \in Bodies, s \in Suffixes }

\* texts of the characters _extract_json_object tells apart, up to MaxText
ShortTexts ==
    UNION { [1..n -> {"{", "}", "[", "]", "\"", "\\", "x"}] : n \in 0..MaxText }

ValidatorIdle ==
    [ op |-> "none", raw_text |-> <<>>, schema |-> EmptySchema,
      outcome |-> Returned(JNull), extracted |-> <<>> ]

\* ------------------------------------------------------------- router
\* temperatures are in hundredths
_MAX_RETRIES == 3
_RETRY_TEMPERATURE_INCREMENT == 10

\* the schema of the role of the call
RoleSchema == SimpleSchema

\* texts a provider can return, and the faults its infer can raise
ProviderResponses ==
    LET Texts ==
            { <<"{", "\"", "code", "\"", ":", "\"", "x", "\"", "}">>,
              <<"x", " ", "{", "\"", "code", "\"", ":", "[", "1", "]", "}">>,
              <<"{", "\"", "code", "\"", ":", "1", "}">>,
              <<"[", "1", "]">>,
              <<"x">> }
    IN  { [kind |-> "text", text |-> t, error |-> "none"] : t \in Texts } \cup
        { [kind |-> "fault", text |-> <<>>, error |-> "RuntimeError"] }

NoError == [kind |-> "none", raw_text |-> <<>>, attempt |-> 0 - 1]

StructuredOutputError(raw_text, attempt) ==
    [kind |-> "StructuredOutputError", raw_text |-> raw_text, attempt |-> attempt]

RouterIdle ==
    [ status |-> "idle", base |-> 0, attempt |-> 0, sent |-> <<>>,
      responses |-> <<>>, last_error |-> NoError, value |-> JNull,
      error |-> NoError ]

Min(a, b) == IF a < b THEN a ELSE b

\* mutant of Temperature: the cap is missing
Temperature_uncapped(base, attempt) ==
    base + attempt * _RETRY_TEMPERATURE_INCREMENT

\* temperature of the request of one attempt
Temperature(base, attempt) ==
    Min(base + attempt * _RETRY_TEMPERATURE_INCREMENT, 100)

\* mutants of LLMRouter_call: the first validation error is kept instead of
\* the last; every exception of infer is caught and retried
LLMRouter_call_first_error(r, response) ==
    LET attempt == r.attempt
        r1 == [r EXCEPT !.sent = Append(@, Temperature(r.base, attempt)),
                        !.responses = Append(@, response)]
    IN  IF response.kind = "fault"
        THEN [r1 EXCEPT !.status = "raised",
                        !.error = [kind |-> response.error, raw_text |-> <<>>,
                                   attempt |-> attempt]]
        ELSE IF parse_and_validate(response.text, RoleSchema).ok
        THEN [r1 EXCEPT !.status = "returned",
                        !.value = parse_and_validate(response.text, RoleSchema).value]
        ELSE IF parse_and_validate(response.text, RoleSchema).error # "StructuredOutputError"
        THEN [r1 EXCEPT !.status = "raised",
                        !.error = [kind |-> parse_and_validate(response.text, RoleSchema).error,
                                   raw_text |-> <<>>, attempt |-> attempt]]
        ELSE LET exc == IF r.last_error = NoError
                        THEN StructuredOutputError(response.text, attempt)
                        ELSE r.last_error
             IN  IF attempt + 1 < _MAX_RETRIES
                 THEN [r1 EXCEPT !.last_error = exc, !.attempt = attempt + 1]
                 ELSE [r1 EXCEPT !.last_error = exc, !.attempt = attempt + 1,
                                 !.status = "raised", !.error = exc]

LLMRouter_call_catch_all(r, response) ==
    LET attempt == r.attempt
        r1 == [r EXCEPT !.sent = Append(@, Temperature(r.base, attempt)),
                        !.responses = Append(@, response)]
    IN  IF response.kind = "text" /\ parse_and_validate(response.text, RoleSchema).ok
        THEN [r1 EXCEPT !.status = "returned",
                        !.value = parse_and_validate(response.text, RoleSchema).value]
        ELSE LET exc == IF response.kind = "fault"
                        THEN [kind |-> response.error, raw_text |-> <<>>,
                              attempt |-> attempt]
                        ELSE IF parse_and_validate(response.text, RoleSchema).error
                                    # "StructuredOutputError"
                        THEN [kind |-> parse_and_validate(response.text, RoleSchema).error,
                              raw_text |-> <<>>, attempt |-> attempt]
                        ELSE StructuredOutputError(response.text, attempt)
             IN  IF attempt + 1 < _MAX_RETRIES
                 THEN [r1 EXCEPT !.last_error = exc, !.attempt = attempt + 1]
                 ELSE [r1 EXCEPT !.last_error = exc, !.attempt = attempt + 1,
                                 !.status = "raised", !.error = exc]

\* one pass of the retry loop of LLMRouter.call, for the response (or the
\* fault) of the provider's infer, and the raise that follows the last pass
LLMRouter_call(r, response) ==
    LET attempt == r.attempt
        r1 == [r EXCEPT !.sent = Append(@, Temperature(r.base, attempt)),
                        !.responses = Append(@, response)]
    IN  IF response.kind = "fault"
        THEN \* not a StructuredOutputError: no handler, it propagates
             [r1 EXCEPT !.status = "raised",
                        !.error = [kind |-> response.error, raw_text |-> <<>>,
                                   attempt |-> attempt]]
        ELSE IF parse_and_validate(response.text, RoleSchema).ok
        THEN [r1 EXCEPT !.status = "returned",
                        !.value = parse_and_validate(response.text, RoleSchema).value]
        ELSE IF parse_and_validate(response.text, RoleSchema).error # "StructuredOutputError"
        THEN \* an error of the validator that is no StructuredOutputError
             [r1 EXCEPT !.status = "raised",
                        !.error = [kind |-> parse_and_validate(response.text, RoleSchema).error,
                                   raw_text |-> <<>>, attempt |-> attempt]]
        ELSE LET exc == StructuredOutputError(response.text, attempt)
             IN  IF attempt + 1 < _MAX_RETRIES
                 THEN [r1 EXCEPT !.last_error = exc, !.attempt = attempt + 1]
                 ELSE [r1 EXCEPT !.last_error = exc, !.attempt = attempt + 1,
                                 !.status = "raised", !.error = exc]

\* ------------------------------------------------------------- sandbox
\* A line of captured output: the marker text it contains, whether the
\* marker is at the start of the line, and the fields that follow the marker.
Line(marker, at_start, etype, msg) ==
    [marker |-> marker, at_start |-> at_start, etype |-> etype, msg |-> msg]

\* What the generated solution and test code do when the script runs:
\*   prints_pass    they write the text SANDBOX_RESULT:PASS to stdout
\*   prints_stderr  lines they write to stderr
\*   end            "pass": the test region runs to completion;
\*                  "assert": it raises AssertionError; "exception": it raises
\*                  another Exception; "crash": the script dies without
\*                  reaching a handler of the wrapper (syntax error, error in
\*                  the solution, sys.exit, signal); "hang": it never ends
Programs ==
    [ prints_pass : BOOLEAN,
      prints_stderr : { <<>>, <<Line("FAIL", TRUE, "", "printed by the code")>> },
      end : {"pass", "assert", "exception", "crash", "hang"} ]

\* stdout and stderr of the script of _SANDBOX_WRAPPER for a program that ends
_SANDBOX_WRAPPER(program) ==
    LET PassLine == Line("PASS", TRUE, "", "")
        TracebackLine == Line("none", TRUE, "", "Traceback")
    IN
    [ stdout |->
          (IF program.prints_pass
           THEN <<Line("PASS", FALSE, "", "printed by the code")>> ELSE <<>>)
          \o (IF program.end = "pass" THEN <<PassLine>> ELSE <<>>),
      stderr |->
          program.prints_stderr
          \o (CASE program.end = "assert" ->
                     <<Line("FAIL", TRUE, "", "expected 3"), TracebackLine>>
                [] program.end = "exception" ->
                     <<Line("EXCEPTION", TRUE, "ZeroDivisionError", "division by zero"),
                       TracebackLine>>
                [] program.end = "crash" -> <<TracebackLine>>
                [] OTHER -> <<>>) ]

ExecutionResult(passed, stdout, stderr, failed_assertions, exception_type, exception_message) ==
    [ passed |-> passed, stdout |-> stdout, stderr |-> stderr,
      failed_assertions |-> failed_assertions,
      exception_type |-> exception_type,
      exception_message |-> exception_message ]

NoResult == ExecutionResult(FALSE, <<>>, <<>>, <<>>, "no result", "")

TimeoutResult ==
    ExecutionResult(FALSE, <<>>, <<Line("none", TRUE, "", "EXECUTION TIMEOUT")>>, <<>>,
                    "TimeoutError", "Execution exceeded limit")

IsFailLine(line) == line.marker = "FAIL" /\ line.at_start

\* the loop of _parse_result over the lines of stderr
StderrAssertions(stderr) ==
    LET fails == SelectSeq(stderr, IsFailLine)
    IN  [i \in 1..Len(fails) |-> fails[i].msg]

StderrException(stderr) ==
    LET IsExceptionLine(line) == line.marker = "EXCEPTION" /\ line.at_start
        lines == SelectSeq(stderr, IsExceptionLine)
    IN  IF lines = <<>> THEN [etype |-> "", msg |-> ""]
        ELSE [etype |-> lines[Len(lines)].etype, msg |-> lines[Len(lines)].msg]

\* mutant of _parse_result: stderr is parsed before the pass marker is looked
\* for, and a passing result carries what was parsed
_parse_result_stderr_kept(stdout, stderr) ==
    ExecutionResult(\E i \in 1..Len(stdout) : stdout[i].marker = "PASS",
                    stdout, stderr, StderrAssertions(stderr),
                    StderrException(stderr).etype, StderrException(stderr).msg)

_parse_result(stdout, stderr) ==
    IF \E i \in 1..Len(stdout) : stdout[i].marker = "PASS"
    THEN ExecutionResult(TRUE, stdout, stderr, <<>>, "", "")
    ELSE ExecutionResult(FALSE, stdout, stderr, StderrAssertions(stderr),
                         StderrException(stderr).etype, StderrException(stderr).msg)


\* pc: idle, spawning, waiting, killing, returned, raised
\* file: none, exists, deleted     child: none, running, killed, exited
SandboxIdle ==
    [ pc |-> "idle", file |-> "none", child |-> "none",
      program |-> [prints_pass |-> FALSE, prints_stderr |-> <<>>, end |-> "none"],
      timed_out |-> FALSE, result |-> NoResult, exc |-> "" ]

\* tmp.write raises inside the with block (the script has a character that
\* utf-8 cannot encode, or the disk is full): the file was created with
\* delete=False, the with block only closes it, and the try/finally that
\* unlinks it has not been entered
execute_write_fails(sb, program, exc) ==
    [sb EXCEPT !.pc = "raised", !.file = "exists", !.program = program, !.exc = exc]

\* execute up to its first await: the script is written to a temp file
execute_start(sb, program) ==
    [sb EXCEPT !.pc = "spawning", !.file = "exists", !.program = program]

\* create_subprocess_exec returned
execute_spawned(sb) == [sb EXCEPT !.pc = "waiting", !.child = "running"]

\* an exception leaves the try block: the finally clause unlinks the file
execute_raise(sb, exc) == [sb EXCEPT !.pc = "raised", !.file = "deleted", !.exc = exc]

\* communicate returned within the timeout: finally, decode, _parse_result
execute_communicated(sb) ==
    [sb EXCEPT !.pc = "returned", !.file = "deleted",
               !.result = _parse_result(_SANDBOX_WRAPPER(sb.program).stdout,
                                        _SANDBOX_WRAPPER(sb.program).stderr)]

\* mutant of execute_timeout: the result is returned right after proc.kill()
execute_timeout_no_wait(sb) ==
    [sb EXCEPT !.pc = "returned", !.child = "killed", !.timed_out = TRUE,
               !.file = "deleted", !.result = TimeoutResult]

\* wait_for raised TimeoutError: proc.kill(), then await proc.communicate()
execute_timeout(sb) ==
    [sb EXCEPT !.pc = "killing", !.child = "killed", !.timed_out = TRUE]

\* the second communicate returned: the timeout result is returned
execute_timeout_return(sb) ==
    [sb EXCEPT !.pc = "returned", !.file = "deleted", !.result = TimeoutResult]

\* ---------------------------------------------------------- benchmark
\* pc: idle, gathering (inside asyncio.gather), done, raised
\* value, waiters: the asyncio.Semaphore
\* run[t]: created, waiting (in semaphore.acquire), running (inside the
\*         async with block), done
\* results[t]: the TaskResults task t has yielded
BenchmarkIdle ==
    [ pc |-> "idle", concurrency |-> 0, value |-> 0, waiters |-> <<>>,
      run |-> <<>>, results |-> <<>>, error |-> "" ]

\* run_benchmark up to asyncio.gather: Semaphore(concurrency) raises
\* ValueError for a negative value; one coroutine per selected task
run_benchmark(b, tasks, concurrency) ==
    IF concurrency < 0
    THEN [b EXCEPT !.pc = "raised", !.concurrency = concurrency, !.error = "ValueError"]
    ELSE [b EXCEPT !.pc = "gathering", !.concurrency = concurrency,
                   !.value = concurrency,
                   !.run = [t \in 1..tasks |-> "created"],
                   !.results = [t \in 1..tasks |-> <<>>]]


\* async with semaphore, entry: the slot is taken at once when the semaphore
\* is not locked, otherwise the task joins the waiters
acquire(b, t) ==
    IF ~(b.value = 0 \/ b.waiters # <<>>)  \* Semaphore.locked()
    THEN [b EXCEPT !.value = @ - 1, !.run[t] = "running"]
    ELSE [b EXCEPT !.waiters = Append(@, t), !.run[t] = "waiting"]

\* async with semaphore, exit: the value goes up by one and the first waiter,
\* if there is one, is woken and takes it
release(b, t) ==
    IF b.waiters # <<>>
    THEN [b EXCEPT !.run[t] = "done", !.run[Head(b.waiters)] = "running",
                   !.waiters = Tail(@)]
    ELSE [b EXCEPT !.run[t] = "done", !.value = @ + 1]

\* run_single_task returns its TaskResult (made from the final state, or
\* from the exception it caught)
run_single_task(b, t, how) == [b EXCEPT !.results[t] = Append(@, how)]

\* ------------------------------------------------- HuggingFaceProvider
Calls == 1..MaxCalls

\* _pipeline: "none" or "loaded"
\* holder, waiters: the asyncio.Lock _lock (holder 0: not locked)
\* call[c]: idle, waiting (for the lock), locked (got the lock, second check
\*          not made yet), loading (awaits the executor), inferring (awaits
\*          the pipeline call), done, raised, cancelled
\* threads: executor threads that are inside _load_pipeline
\* orphans: those of them whose infer call was cancelled
\* load_succeeded, loaded_again: history of the loads
ProviderIdle ==
    [ _pipeline |-> "none", holder |-> 0, waiters |-> <<>>,
      call |-> [c \in Calls |-> "idle"], threads |-> 0, orphans |-> 0,
      load_succeeded |-> FALSE, loaded_again |-> FALSE ]

\* Lock.release: the first waiter, if there is one, is woken and has the lock
lock_release(p) ==
    IF p.waiters = <<>> THEN [p EXCEPT !.holder = 0]
    ELSE [p EXCEPT !.holder = Head(p.waiters), !.waiters = Tail(@),
                   !.call[Head(p.waiters)] = "locked"]

\* _ensure_loaded once call c has the lock: the second check
_ensure_loaded_locked(p, c) ==
    IF p._pipeline # "none"
    THEN [lock_release(p) EXCEPT !.call[c] = "inferring"]
    ELSE \* run_in_executor(None, self._load_pipeline) is submitted
         [p EXCEPT !.call[c] = "loading", !.threads = @ + 1,
                   !.loaded_again = @ \/ p.load_succeeded]

\* infer is called: _ensure_loaded up to its first suspension
_ensure_loaded(p, c) ==
    IF p._pipeline # "none" THEN [p EXCEPT !.call[c] = "inferring"]
    ELSE IF p.holder = 0 /\ p.waiters = <<>>
    THEN _ensure_loaded_locked([p EXCEPT !.holder = c], c)
    ELSE [p EXCEPT !.waiters = Append(@, c), !.call[c] = "waiting"]

\* the load of call c ends: the pipeline is stored and the lock released,
\* or the error of _load_pipeline leaves infer
load_returns(p, c, ok) ==
    IF ok
    THEN [lock_release([p EXCEPT !._pipeline = "loaded", !.threads = @ - 1,
                                 !.load_succeeded = TRUE])
             EXCEPT !.call[c] = "inferring"]
    ELSE [lock_release([p EXCEPT !.threads = @ - 1]) EXCEPT !.call[c] = "raised"]

\* call c is cancelled while it is suspended: CancelledError is raised at
\* its await.  A waiter leaves the queue of the lock; a loader leaves the
\* async with block, which releases the lock, while its executor thread,
\* which cannot be cancelled, goes on loading
infer_cancelled(p, c) ==
    CASE p.call[c] = "waiting" ->
             [p EXCEPT !.call[c] = "cancelled",
                       !.waiters = SelectSeq(@, LAMBDA w : w # c)]
      [] p.call[c] = "locked" ->
             [lock_release(p) EXCEPT !.call[c] = "cancelled"]
      [] p.call[c] = "loading" ->
             [lock_release([p EXCEPT !.orphans = @ + 1]) EXCEPT !.call[c] = "cancelled"]
      [] OTHER -> [p EXCEPT !.call[c] = "cancelled"]

\* an orphaned load ends: nobody awaits its result
orphan_returns(p, ok) ==
    [p EXCEPT !.threads = @ - 1, !.orphans = @ - 1,
              !.load_succeeded = @ \/ ok]

\* ------------------------------------------------------------ EventBus
Subscribers == 1..MaxSubscribers
\* the sentinel close puts on the queues
None == 0

\* _subscribers: the registered queues, by the subscriber they belong to
\* queue[s]: the asyncio.Queue of subscriber s; read[s]: what s has got from it
\* status[s]: new, subscribed (inside the context of subscribe), left
\* emitted: number of events emitted while the bus was open
\* ignored: an emit found the bus closed and returned
\* at_close: the subscribers registered when close ran
\* closes: number of calls of close
BusIdle ==
    [ _closed |-> FALSE, _subscribers |-> <<>>,
      queue |-> [s \in Subscribers |-> <<>>],
      read |-> [s \in Subscribers |-> <<>>],
      status |-> [s \in Subscribers |-> "new"],
      emitted |-> 0, ignored |-> FALSE, at_close |-> {}, closes |-> 0 ]

Registered(b) == { b._subscribers[i] : i \in 1..Len(b._subscribers) }

\* queue.put_nowait(item) with QueueFull caught: the item is dropped
put_nowait(q, item) == IF Len(q) < _QUEUE_MAXSIZE THEN Append(q, item) ELSE q

\* the subscribers that come before s in _subscribers
Before(b, s) ==
    { b._subscribers[i] : i \in 1..(CHOOSE k \in 1..Len(b._subscribers) :
                                        b._subscribers[k] = s) - 1 }

\* mutant of emit: QueueFull is caught around the loop, not inside it, so a
\* full queue ends the loop
emit_stops_at_full_queue(b, event) ==
    IF b._closed THEN [b EXCEPT !.ignored = TRUE]
    ELSE [b EXCEPT !.emitted = event,
                   !.queue = [s \in Subscribers |->
                       IF /\ s \in Registered(b)
                          /\ \A r \in Before(b, s) : Len(b.queue[r]) < _QUEUE_MAXSIZE
                       THEN put_nowait(b.queue[s], event) ELSE b.queue[s]]]

\* mutant of emit: a subscriber whose queue is full is handled like one whose
\* queue raised another exception, and is removed
emit_removes_full_subscriber(b, event) ==
    IF b._closed THEN [b EXCEPT !.ignored = TRUE]
    ELSE [b EXCEPT !.emitted = event,
                   !._subscribers =
                       SelectSeq(@, LAMBDA s : Len(b.queue[s]) < _QUEUE_MAXSIZE),
                   !.queue = [s \in Subscribers |->
                       IF s \in Registered(b)
                       THEN put_nowait(b.queue[s], event) ELSE b.queue[s]]]

\* emit: nothing on a closed bus; else the event is put on the queue of
\* every registered subscriber, and dropped for a queue that is full
emit(b, event) ==
    IF b._closed THEN [b EXCEPT !.ignored = TRUE]
    ELSE [b EXCEPT !.emitted = event,
                   !.queue = [s \in Subscribers |->
                       IF s \in Registered(b)
                       THEN put_nowait(b.queue[s], event) ELSE b.queue[s]]]

\* entering the context of subscribe: a new queue is registered
subscribe(b, s) ==
    [b EXCEPT !._subscribers = Append(@, s), !.status[s] = "subscribed"]

\* leaving the context of subscribe: the queue is removed
unsubscribe(b, s) ==
    [b EXCEPT !._subscribers = SelectSeq(@, LAMBDA r : r # s), !.status[s] = "left"]

\* mutant of close: the sentinels are put but the bus is not marked closed
close_stays_open(b) ==
    [b EXCEPT !.at_close = @ \cup Registered(b),
              !.closes = @ + 1,
              !.queue = [s \in Subscribers |->
                  IF s \in Registered(b)
                  THEN put_nowait(b.queue[s], None) ELSE b.queue[s]]]

\* close: the bus is closed and None is put on every registered queue; for a
\* queue that is full QueueFull is passed over
close(b) ==
    [b EXCEPT !._closed = TRUE,
              !.at_close = @ \cup Registered(b),
              !.closes = @ + 1,
              !.queue = [s \in Subscribers |->
                  IF s \in Registered(b)
                  THEN put_nowait(b.queue[s], None) ELSE b.queue[s]]]

\* await queue.get() by subscriber s, whose queue is not empty
queue_get(b, s) ==
    [b EXCEPT !.queue[s] = Tail(@), !.read[s] = Append(@, Head(b.queue[s]))]

\* ------------------------------------------------------------- actions
\* max_iterations is an unchecked int (run_benchmark --max-iterations)
Init ==
    /\ state \in { _make_initial_state(m) : m \in (0 - 1)..MaxIter }
    /\ pc = "generate_solution"
    /\ total_seen = 0
    /\ yielded = <<>>
    /\ prev = ""
    /\ executions = 0
    /\ last_result = [none |-> TRUE]
    /\ router = RouterIdle
    /\ sandbox = SandboxIdle
    /\ validator = ValidatorIdle
    /\ benchmark = BenchmarkIdle
    /\ provider = ProviderIdle
    /\ bus = BusIdle

\* the generator role returns code, which may be empty
GenerateSolution ==
    \E code \in {"", "code"} :
        LET result == [code |-> code]
        IN  /\ RunNode("generate_solution", generate_solution(state, result))
            /\ last_result' = [code |-> code, template_key |-> template_key(state)]
            /\ UNCHANGED executions

\* the qa_adversarial role returns test_code
CreateAdversarialTests ==
    \E t \in {"tests"} :
        LET result == [test_code |-> t]
        IN  /\ RunNode("create_adversarial_tests", create_adversarial_tests(state, result))
            /\ last_result' = result
            /\ UNCHANGED executions

ExecuteSolution ==
    \E result \in ExecutionResults :
        /\ RunNode("execute_solution", execute_solution(state, result))
        /\ executions' = executions + 1
        /\ UNCHANGED last_result

DiagnoseFailure ==
    \E result \in Diagnoses :
        /\ RunNode("diagnose_failure", diagnose_failure(state, result))
        /\ last_result' = result
        /\ UNCHANGED executions

UpdateLearningLog ==
    \/ /\ state.root_cause = ""
       /\ RunNode("update_learning_log", update_learning_log(state, [none |-> TRUE]))
       /\ UNCHANGED <<executions, last_result>>
    \/ /\ state.root_cause # ""
       /\ \E result \in SummarizerResults :
            /\ RunNode("update_learning_log", update_learning_log(state, result))
            /\ last_result' = result
       /\ UNCHANGED executions

IncrementIteration ==
    /\ RunNode("increment_iteration", _increment_iteration(state))
    /\ UNCHANGED <<executions, last_result>>

MaxIterations ==
    /\ RunNode("max_iterations", max_iterations_node(state))
    /\ UNCHANGED <<executions, last_result>>

Next ==
    \/ GenerateSolution
    \/ CreateAdversarialTests
    \/ ExecuteSolution
    \/ DiagnoseFailure
    \/ UpdateLearningLog
    \/ IncrementIteration
    \/ MaxIterations

Spec == Init /\ [][Next]_vars

\* the graph runs a node whenever one is due (each model call and each
\* sandbox execution returns)
FairSpec == Spec /\ WF_vars(Next)

\* ------------------------------------------------------ router actions
\* a node calls LLMRouter.call (the router keeps nothing between calls)
\* base_temperature is an argument of LLMRouter.call (the nodes use the
\* default, 20)
RouterCall ==
    /\ router.status # "running"
    /\ \E base \in {20, 85, 95, 100, 120} :
          router' = [RouterIdle EXCEPT !.status = "running", !.base = base]
    /\ UNCHANGED <<loop_vars, sandbox, validator, benchmark, provider, bus>>

\* the provider's infer returns or raises, and the loop handles it
RouterAttempt ==
    /\ router.status = "running"
    /\ \E response \in ProviderResponses :
          router' = LLMRouter_call(router, response)
    /\ UNCHANGED <<loop_vars, sandbox, validator, benchmark, provider, bus>>

RouterNext == RouterCall \/ RouterAttempt

RouterSpec == Init /\ [][RouterNext]_vars

\* ----------------------------------------------------- sandbox actions
SbExecute ==
    /\ sandbox.pc = "idle"
    /\ \E program \in Programs : sandbox' = execute_start(sandbox, program)
    /\ UNCHANGED <<loop_vars, router, validator, benchmark, provider, bus>>

\* the script cannot be written to the temp file
SbWriteFails ==
    /\ sandbox.pc = "idle"
    /\ \E program \in Programs, exc \in {"UnicodeEncodeError", "OSError"} :
          sandbox' = execute_write_fails(sandbox, program, exc)
    /\ UNCHANGED <<loop_vars, router, validator, benchmark, provider, bus>>

\* the process is spawned, or cannot be spawned
SbSpawn ==
    /\ sandbox.pc = "spawning"
    /\ \/ sandbox' = execute_spawned(sandbox)
       \/ sandbox' = execute_raise(sandbox, "OSError")
    /\ UNCHANGED <<loop_vars, router, validator, benchmark, provider, bus>>

\* the child ends by itself, or dies of the kill signal
SbChildExits ==
    /\ \/ sandbox.child = "running" /\ sandbox.program.end # "hang"
       \/ sandbox.child = "killed"
    /\ sandbox' = [sandbox EXCEPT !.child = "exited"]
    /\ UNCHANGED <<loop_vars, router, validator, benchmark, provider, bus>>

\* communicate returns: the child has exited and its pipes are closed
SbCommunicated ==
    /\ sandbox.pc = "waiting"
    /\ sandbox.child = "exited"
    /\ sandbox' = execute_communicated(sandbox)
    /\ UNCHANGED <<loop_vars, router, validator, benchmark, provider, bus>>

\* the timeout expires while the child has not finished
SbTimeout ==
    /\ sandbox.pc = "waiting"
    /\ sandbox.child = "running"
    /\ sandbox' = execute_timeout(sandbox)
    /\ UNCHANGED <<loop_vars, router, validator, benchmark, provider, bus>>

SbTimeoutReturn ==
    /\ sandbox.pc = "killing"
    /\ sandbox.child = "exited"
    /\ sandbox' = execute_timeout_return(sandbox)
    /\ UNCHANGED <<loop_vars, router, validator, benchmark, provider, bus>>

\* the caller cancels the task while execute is suspended in an await:
\* CancelledError is raised there; no handler catches it, finally runs
SbCancel ==
    /\ sandbox.pc \in {"spawning", "waiting", "killing"}
    /\ sandbox' = execute_raise(sandbox, "CancelledError")
    /\ UNCHANGED <<loop_vars, router, validator, benchmark, provider, bus>>

SandboxNext ==
    \/ SbExecute
    \/ SbWriteFails
    \/ SbSpawn
    \/ SbChildExits
    \/ SbCommunicated
    \/ SbTimeout
    \/ SbTimeoutReturn
    \/ SbCancel

SandboxSpec == Init /\ [][SandboxNext]_vars

\* --------------------------------------------------- validator actions
\* a call of parse_and_validate.  The validator keeps nothing between calls
\* (it has no module or object state), so one call from the idle state stands
\* for every call.
ParseAndValidate ==
    /\ validator.op = "none"
    /\ \E raw_text \in RawTexts, schema \in Schemas :
          validator' = [ op |-> "parse_and_validate", raw_text |-> raw_text,
                         schema |-> schema,
                         outcome |-> parse_and_validate(raw_text, schema),
                         extracted |-> _extract_json_object(
                                           _strip_markdown_fences(raw_text)) ]
    /\ UNCHANGED <<loop_vars, router, sandbox, benchmark, provider, bus>>

\* a call of _extract_json_object
ExtractJsonObject ==
    /\ validator.op = "none"
    /\ \E text \in ShortTexts :
          validator' = [ValidatorIdle EXCEPT !.op = "_extract_json_object",
                                             !.raw_text = text,
                                             !.extracted = _extract_json_object(text)]
    /\ UNCHANGED <<loop_vars, router, sandbox, benchmark, provider, bus>>

ValidatorNext == ParseAndValidate \/ ExtractJsonObject

ValidatorSpec == Init /\ [][ValidatorNext]_vars

\* --------------------------------------------------- benchmark actions
\* --concurrency is parsed with type=int and passed on as it is
RunBenchmark ==
    /\ benchmark.pc = "idle"
    /\ \E tasks \in 1..MaxTasks, concurrency \in (0 - 1)..MaxConcurrency :
          benchmark' = run_benchmark(benchmark, tasks, concurrency)
    /\ UNCHANGED <<loop_vars, router, sandbox, validator, provider, bus>>

\* a coroutine of the gather starts and reaches the semaphore
TaskAcquires ==
    /\ benchmark.pc = "gathering"
    /\ \E t \in DOMAIN benchmark.run :
          /\ benchmark.run[t] = "created"
          /\ benchmark' = acquire(benchmark, t)
    /\ UNCHANGED <<loop_vars, router, sandbox, validator, provider, bus>>

\* the run of a task ends (run_agent returns a final state, or raises an
\* Exception that run_single_task catches): its TaskResult is returned and
\* the slot released
TaskRunEnds ==
    /\ benchmark.pc = "gathering"
    /\ \E t \in DOMAIN benchmark.run, how \in {"returned", "Exception"} :
          /\ benchmark.run[t] = "running"
          /\ benchmark' = release(run_single_task(benchmark, t, how), t)
    /\ UNCHANGED <<loop_vars, router, sandbox, validator, provider, bus>>

\* every coroutine has returned: gather returns the list of results
GatherReturns ==
    /\ benchmark.pc = "gathering"
    /\ \A t \in DOMAIN benchmark.run : benchmark.run[t] = "done"
    /\ benchmark' = [benchmark EXCEPT !.pc = "done"]
    /\ UNCHANGED <<loop_vars, router, sandbox, validator, provider, bus>>

BenchmarkNext ==
    \/ RunBenchmark
    \/ TaskAcquires
    \/ TaskRunEnds
    \/ GatherReturns

\* every run of a task ends (C1), and the event loop runs every task that
\* can run
BenchmarkSpec == Init /\ [][BenchmarkNext]_vars /\ WF_vars(BenchmarkNext)

\* ---------------------------------------------------- provider actions
HfInfer ==
    /\ \E c \in Calls :
          /\ provider.call[c] = "idle"
          /\ provider' = _ensure_loaded(provider, c)
    /\ UNCHANGED <<loop_vars, router, sandbox, validator, benchmark, bus>>

\* a waiter that was given the lock runs on
HfLocked ==
    /\ \E c \in Calls :
          /\ provider.call[c] = "locked"
          /\ provider' = _ensure_loaded_locked(provider, c)
    /\ UNCHANGED <<loop_vars, router, sandbox, validator, benchmark, bus>>

\* _load_pipeline returns a pipeline or raises RuntimeError
HfLoadReturns ==
    /\ \E c \in Calls, ok \in BOOLEAN :
          /\ provider.call[c] = "loading"
          /\ provider' = load_returns(provider, c, ok)
    /\ UNCHANGED <<loop_vars, router, sandbox, validator, benchmark, bus>>

\* the pipeline call of infer returns
HfInferReturns ==
    /\ \E c \in Calls :
          /\ provider.call[c] = "inferring"
          /\ provider' = [provider EXCEPT !.call[c] = "done"]
    /\ UNCHANGED <<loop_vars, router, sandbox, validator, benchmark, bus>>

\* the caller cancels an infer call at one of its suspension points
HfCancel ==
    /\ \E c \in Calls :
          /\ provider.call[c] \in {"waiting", "locked", "loading", "inferring"}
          /\ provider' = infer_cancelled(provider, c)
    /\ UNCHANGED <<loop_vars, router, sandbox, validator, benchmark, bus>>

HfOrphanReturns ==
    /\ provider.orphans > 0
    /\ \E ok \in BOOLEAN : provider' = orphan_returns(provider, ok)
    /\ UNCHANGED <<loop_vars, router, sandbox, validator, benchmark, bus>>

ProviderNext ==
    \/ HfInfer
    \/ HfLocked
    \/ HfLoadReturns
    \/ HfInferReturns
    \/ HfCancel
    \/ HfOrphanReturns

ProviderSpec == Init /\ [][ProviderNext]_vars

\* -------------------------------------------------------- bus actions
BusSubscribe ==
    /\ \E s \in Subscribers :
          /\ bus.status[s] = "new"
          /\ bus' = subscribe(bus, s)
    /\ UNCHANGED <<loop_vars, router, sandbox, validator, benchmark, provider>>

BusUnsubscribe ==
    /\ \E s \in Subscribers :
          /\ bus.status[s] = "subscribed"
          /\ bus' = unsubscribe(bus, s)
    /\ UNCHANGED <<loop_vars, router, sandbox, validator, benchmark, provider>>

BusEmit ==
    \* events are numbered from 1; enough of them to overfill a queue and
    \* to emit again after that
    /\ bus.emitted < _QUEUE_MAXSIZE + 2
    /\ bus' = emit(bus, bus.emitted + 1)
    /\ UNCHANGED <<loop_vars, router, sandbox, validator, benchmark, provider>>

\* close can be called again on a closed bus
BusClose ==
    /\ bus.closes < MaxCloses
    /\ bus' = close(bus)
    /\ UNCHANGED <<loop_vars, router, sandbox, validator, benchmark, provider>>

BusGet ==
    /\ \E s \in Subscribers :
          /\ bus.status[s] = "subscribed"
          /\ bus.queue[s] # <<>>
          /\ bus' = queue_get(bus, s)
    /\ UNCHANGED <<loop_vars, router, sandbox, validator, benchmark, provider>>

BusNext ==
    \/ BusSubscribe
    \/ BusUnsubscribe
    \/ BusEmit
    \/ BusClose
    \/ BusGet

BusSpec == Init /\ [][BusNext]_vars


\* the nodes that await router.call
ModelCallNodes ==
    {"generate_solution", "create_adversarial_tests", "diagnose_failure",
     "update_learning_log"}

\* router.call raises inside a node.  No node has an exception handler, so
\* the error leaves the node and the graph run: the update of the node is
\* lost and no further node runs (pc = "raised").
ModelCallRaises ==
    /\ pc \in ModelCallNodes
    /\ pc = "update_learning_log" => state.root_cause # ""
    /\ \E kind \in {"StructuredOutputError", "RuntimeError"} : last_result' = [raised |-> kind]
    /\ pc' = "raised"
    /\ prev' = pc
    /\ UNCHANGED <<state, total_seen, yielded, executions>>
    /\ UNCHANGED <<router, sandbox, validator, benchmark, provider, bus>>

FaultNext == Next \/ ModelCallRaises

FaultSpec == Init /\ [][FaultNext]_vars

\* ================================================================ claims
Positions(evs) == 1..Len(evs)

\* number of events of type ty that carry iteration it
CountType(evs, ty, it) ==
    Cardinality({ i \in Positions(evs) : evs[i].type = ty /\ evs[i].iteration = it })

TerminalStatuses == {"success", "max_iterations_reached"}

C2_IterationBounded ==
    [][ /\ state.iteration <= state.max_iterations
        /\ state'.iteration <= state'.max_iterations
        /\ (state'.iteration # state.iteration =>
                /\ pc = "increment_iteration"
                /\ state'.iteration = state.iteration + 1) ]_vars

C5_PassEndsRun ==
    [][ (pc = "execute_solution" /\ state'.last_execution_passed) =>
            /\ pc' = END
            /\ state'.status = "success"
            /\ executions = state.iteration
            /\ state'.iteration = state.iteration
            /\ CountType(state'.events, DIAGNOSIS, state.iteration) = 0
            /\ CountType(state'.events, LEARNING_UPDATE, state.iteration) = 0 ]_vars

C5_Witness ==
    pc = END /\ state.status = "success" /\ state.iteration >= 1 /\ executions >= 2

\* C6: the history has one record per completed sandbox execution, the
\* records' indices are 0, 1, 2, ... in order, and no step changes or removes
\* a record
HistoryOk(s, n) ==
    /\ Len(s.iteration_history) = n
    /\ \A i \in 1..Len(s.iteration_history) : s.iteration_history[i].iteration = i - 1

C7_EventsOnlyGrow == [][ IsPrefix(state.events, state'.events) ]_vars

C7_Witness ==
    /\ prev = "update_learning_log"
    /\ state.root_cause = ""
    /\ Len(state.events) >= 9

\* C8: the diagnosis event of iteration i comes before the learning_update
\* event of iteration i, which comes before the code_generated event of
\* iteration i+1
C8_EventOrder ==
    \A p \in Positions(state.events) :
        state.events[p].type = LEARNING_UPDATE =>
            /\ \E q \in 1..(p - 1) :
                  /\ state.events[q].type = DIAGNOSIS
                  /\ state.events[q].iteration = state.events[p].iteration
            /\ \A q \in Positions(state.events) :
                  ( /\ state.events[q].type = DIAGNOSIS
                    /\ state.events[q].iteration = state.events[p].iteration ) => q < p
            /\ \A r \in Positions(state.events) :
                  ( /\ state.events[r].type = CODE_GENERATED
                    /\ state.events[r].iteration = state.events[p].iteration + 1 ) => p < r

C8_Witness ==
    /\ CountType(state.events, LEARNING_UPDATE, 0) = 1
    /\ CountType(state.events, CODE_GENERATED, 1) = 1
    /\ CountType(state.events, LEARNING_UPDATE, 1) = 1

\* C9: when the run has ended, the last event yielded by stream_agent is a
\* terminal event that tells success from max_iterations_reached
C9_TerminalEventLast ==
    pc = END =>
        /\ yielded # <<>>
        /\ Last(yielded).type = state.status

\* C10: the learning log has at most 5 entries, whatever number of lessons
\* the summarizer's output contains
C10_LearningLogCapped == Len(state.learning_log) <= LessonCap

C10_Witness ==
    /\ prev = "update_learning_log"
    /\ "lessons" \in DOMAIN last_result
    /\ Len(last_result.lessons) > LessonCap
    /\ Len(state.learning_log) = LessonCap

\* C11: when the summarizer supplies more than 5 lessons, oldest first, the
\* learning log kept is the 5 most recent lessons, in order
C11_KeepsMostRecent ==
    ( /\ prev = "update_learning_log"
      /\ "lessons" \in DOMAIN last_result
      /\ Len(last_result.lessons) > LessonCap ) =>
        state.learning_log =
            Drop(last_result.lessons, Len(last_result.lessons) - LessonCap)

\* the response of attempt i (1-based) was a text that failed validation
FailedValidation(i) ==
    /\ router.responses[i].kind = "text"
    /\ parse_and_validate(router.responses[i].text, RoleSchema).error
          = "StructuredOutputError"

\* C12: LLMRouter.call invokes the provider at most 3 times, stops at the
\* first attempt whose output passes the validator and returns that value,
\* and after 3 failed validations raises the error of the 3rd attempt
C12_RouterRetries ==
    LET n == Len(router.responses)
    IN  /\ n <= 3
        /\ Len(router.sent) = n
        /\ \A i \in 1..(n - 1) : FailedValidation(i)
        /\ router.status = "running" => \A i \in 1..n : FailedValidation(i)
        /\ router.status = "returned" =>
              /\ router.responses[n].kind = "text"
              /\ parse_and_validate(router.responses[n].text, RoleSchema).ok
              /\ router.value = parse_and_validate(router.responses[n].text, RoleSchema).value
        /\ (router.status = "raised" /\ router.error.kind = "StructuredOutputError") =>
              /\ n = 3
              /\ \A i \in 1..3 : FailedValidation(i)
              /\ router.error = StructuredOutputError(router.responses[3].text, 2)

C12_Witness ==
    /\ router.status = "raised"
    /\ router.error.kind = "StructuredOutputError"
    /\ router.responses[1].text # router.responses[3].text

\* C13: the temperature of attempt i is min(base + i * increment, 1.0); it
\* is never above 1.0, and it is strictly greater than the temperature of
\* the attempt before unless that one was already at 1.0
C13_TemperatureEscalates ==
    \A i \in 1..Len(router.sent) :
        /\ router.sent[i] <= 100
        /\ router.sent[i] = Min(router.base + (i - 1) * 10, 100)
        /\ i > 1 => (router.sent[i] > router.sent[i - 1] \/ router.sent[i - 1] = 100)

C13_Witness ==
    /\ Len(router.sent) = 3
    /\ router.sent[1] < router.sent[2]
    /\ router.sent[2] = 100
    /\ router.sent[3] = 100

\* C14: a fault raised by the provider's infer is not retried: it is the last
\* invocation of the call and the call raises that fault, on any attempt
C14_TransportFaultNotRetried ==
    \A i \in 1..Len(router.responses) :
        router.responses[i].kind = "fault" =>
            /\ i = Len(router.responses)
            /\ router.status = "raised"
            /\ router.error.kind = router.responses[i].error
            /\ router.error.attempt = i - 1

C14_Witness ==
    /\ router.status = "raised"
    /\ Len(router.responses) = 2
    /\ router.responses[2].kind = "fault"

\* C15: a StructuredOutputError that router.call raises inside generate,
\* adversarial_test, diagnose or summarize_memory is absorbed by the node: it
\* never leaves the node as an exception, and the run goes on to a next node
\* or to END
C15_ModelCallFaultAbsorbed ==
    [][ (pc \in ModelCallNodes /\ last_result' = [raised |-> "StructuredOutputError"])
            => pc' \in ModelCallNodes \cup
                       {"execute_solution", "increment_iteration", "max_iterations", END} ]_vars

\* the wrapped test region ran to completion without raising, and the child
\* was not killed for the timeout
TestsPassed == sandbox.program.end = "pass" /\ ~sandbox.timed_out

\* C16: once the child is spawned execute never raises (the caller's
\* cancellation aside): every way the child ends yields a returned
\* ExecutionResult, and every failing way yields passed = false
C16_ExecuteNeverRaises ==
    /\ sandbox.pc = "raised" => sandbox.exc = "CancelledError" \/ sandbox.child = "none"
    /\ (sandbox.pc = "raised" /\ sandbox.exc = "OSError") => sandbox.child = "none"
    /\ sandbox.pc = "returned" =>
          /\ sandbox.result # NoResult
          /\ ~TestsPassed => ~sandbox.result.passed

\* C17: a result with passed = true has no failed assertions and no
\* exception kind or message, whatever the child wrote on stderr
C17_PassedResultIsClean ==
    (sandbox.pc = "returned" /\ sandbox.result.passed) =>
        /\ sandbox.result.failed_assertions = <<>>
        /\ sandbox.result.exception_type = ""
        /\ sandbox.result.exception_message = ""

C17_Witness ==
    /\ sandbox.pc = "returned"
    /\ sandbox.result.passed
    /\ \E i \in 1..Len(sandbox.result.stderr) : IsFailLine(sandbox.result.stderr[i])

\* C18: on a timeout execute kills the child, waits until it has exited and
\* only then returns passed = false with exception kind TimeoutError; the
\* child is never still running after execute has returned
C18_TimeoutKillsChild ==
    /\ sandbox.pc = "returned" => sandbox.child = "exited"
    /\ sandbox.timed_out => sandbox.child \in {"killed", "exited"}
    /\ (sandbox.pc = "returned" /\ sandbox.timed_out) =>
          /\ ~sandbox.result.passed
          /\ sandbox.result.exception_type = "TimeoutError"

C18_Witness ==
    /\ sandbox.pc = "returned"
    /\ sandbox.timed_out
    /\ sandbox.program.end = "hang"

\* C19: when the caller cancels a run while execute waits for the child, the
\* child is terminated: once the cancellation is processed no child runs
C19_CancelKillsChild ==
    (sandbox.pc = "raised" /\ sandbox.exc = "CancelledError") =>
        sandbox.child \in {"none", "killed", "exited"}

\* C20: execute returns passed = true only if the wrapped test region ran to
\* completion without raising, whatever the code writes to its streams
C20_PassedOnlyIfTestsPassed ==
    (sandbox.pc = "returned" /\ sandbox.result.passed) => TestsPassed

\* C21: a call of execute creates one temporary script file, and when the
\* call has ended (it returned or raised) that file has been deleted
C21_TempFileDeleted ==
    /\ sandbox.pc = "idle" => sandbox.file = "none"
    /\ sandbox.pc \in {"returned", "raised"} => sandbox.file = "deleted"

\* the value json.loads gave in the call of parse_and_validate on record
ParsedOfCall ==
    json_loads(_extract_json_object(_strip_markdown_fences(validator.raw_text)))

\* C22: parse_and_validate returns a value that conforms to the schema, or
\* raises StructuredOutputError carrying the raw text; it raises nothing else
C22_ValueOrStructuredOutputError ==
    validator.op = "parse_and_validate" =>
        \/ /\ validator.outcome.ok
           /\ validate(validator.outcome.value, validator.schema)
        \/ /\ ~validator.outcome.ok
           /\ validator.outcome.error = "StructuredOutputError"
           /\ validator.outcome.raw_text = validator.raw_text

\* the parsed object with every container under a required string field
\* replaced by some string
WithStringsFor(parsed, schema) ==
    JValue("object", <<>>, [i \in 1..Len(parsed.items) |->
        IF /\ InSeq(parsed.items[i].key, required_string_fields(schema))
           /\ parsed.items[i].value.kind \in {"object", "array"}
        THEN [key |-> parsed.items[i].key, value |-> JString(<<"x">>)]
        ELSE parsed.items[i]])

\* C23: for a required string field of the schema, a parsed object or array
\* is replaced by its serialized JSON string, and the call succeeds when the
\* containers under such fields were the only violations; a parsed number,
\* boolean or null makes the call fail with StructuredOutputError
C23_ContainersCoerced ==
    (validator.op = "parse_and_validate" /\ ParsedOfCall.ok
        /\ ParsedOfCall.value.kind = "object") =>
        LET parsed == ParsedOfCall.value
            fields == required_string_fields(validator.schema)
        IN  /\ validate(WithStringsFor(parsed, validator.schema), validator.schema)
                => validator.outcome.ok
            /\ \A i \in 1..Len(fields) :
                  LET before == dict_get(parsed, fields[i])
                  IN  /\ ( /\ dict_has(parsed, fields[i])
                           /\ before.kind \in {"object", "array"}
                           /\ validator.outcome.ok ) =>
                             dict_get(validator.outcome.value, fields[i])
                                 = JString(json_dumps(before))
                      /\ ( /\ dict_has(parsed, fields[i])
                           /\ before.kind \in {"integer", "boolean", "null"} ) =>
                             /\ ~validator.outcome.ok
                             /\ validator.outcome.error = "StructuredOutputError"

\* an array under the required string field was serialized, and the call
\* returned
C23_Witness ==
    /\ validator.op = "parse_and_validate"
    /\ validator.schema = SimpleSchema
    /\ ParsedOfCall.ok
    /\ ParsedOfCall.value.kind = "object"
    /\ dict_get(ParsedOfCall.value, <<"code">>).kind = "array"
    /\ validator.outcome.ok
    /\ dict_get(validator.outcome.value, <<"code">>)
          = JString(<<"[", "1", ",", " ", "\"", "x", "\"", "]">>)

\* whether index i of the text lies inside a quoted string, reading the text
\* from its start
RECURSIVE InsideString(_, _, _, _, _)
InsideString(text, i, j, in_string, escape_next) ==
    IF j = i THEN in_string
    ELSE IF escape_next THEN InsideString(text, i, j + 1, in_string, FALSE)
    ELSE IF text[j] = "\\" /\ in_string THEN InsideString(text, i, j + 1, in_string, TRUE)
    ELSE IF text[j] = "\"" THEN InsideString(text, i, j + 1, ~in_string, FALSE)
    ELSE InsideString(text, i, j + 1, in_string, FALSE)

Closer(ch) == IF ch = "{" THEN "}" ELSE "]"

\* the index where the balanced span that opens at index i ends, 0 if none
SpanEnd(text, i) == walk(text, i, text[i], Closer(text[i]), 0, FALSE, FALSE)

\* the indexes outside quoted strings where a balanced span opens
SpanStarts(text) ==
    { i \in 1..Len(text) :
        /\ text[i] \in {"{", "["}
        /\ ~InsideString(text, i, 1, FALSE, FALSE)
        /\ SpanEnd(text, i) # 0 }

\* the text _extract_json_object was given in the call on record
ExtractedFrom ==
    IF validator.op = "parse_and_validate"
    THEN _strip_markdown_fences(validator.raw_text)
    ELSE validator.raw_text

\* C24: the candidate value is the balanced {...} or [...] span that starts
\* earliest in the text, braces and brackets inside quoted strings not
\* counted, whatever prose stands before or after it
C24_FirstBalancedSpan ==
    (validator.op # "none" /\ SpanStarts(ExtractedFrom) # {}) =>
        LET first == SetMin(SpanStarts(ExtractedFrom))
        IN  validator.extracted
                = SubSeq(ExtractedFrom, first, SpanEnd(ExtractedFrom, first))

Running == { t \in DOMAIN benchmark.run : benchmark.run[t] = "running" }

\* C26: in a batch with concurrency c at most c runs are in progress at any
\* instant, the slot of a run is released when the run ends (normally or by
\* an exception), and every selected task is eventually run and yields
\* exactly one TaskResult
C26_BoundedAndComplete ==
    /\ [](benchmark.pc = "gathering" =>
            /\ Cardinality(Running) <= benchmark.concurrency
            /\ benchmark.value + Cardinality(Running) = benchmark.concurrency
            /\ \A t \in DOMAIN benchmark.run : Len(benchmark.results[t]) <= 1)
    /\ (benchmark.pc = "gathering") ~>
            /\ benchmark.pc = "done"
            /\ \A t \in DOMAIN benchmark.run : Len(benchmark.results[t]) = 1

\* C27: with several infer calls on one HuggingFaceProvider, two loads never
\* run at the same time, no load starts once a load has succeeded, and no
\* call uses the pipeline before it is loaded
C27_LoadedOnce ==
    /\ provider.threads <= 1
    /\ ~provider.loaded_again
    /\ \A c \in Calls :
          provider.call[c] \in {"inferring", "done"} => provider._pipeline = "loaded"

ClosedEventTypes ==
    {"step", "code_generated", "tests_generated", "failure", "diagnosis",
     "learning_update", "success"}

TypesOf(evs) == { evs[i].type : i \in 1..Len(evs) }

\* C28: every event of a run has a type in the closed set of seven types,
\* and stream_events_for_ui with include_internal = false drops none of them
C28_EventTypesPublic ==
    LET shown == stream_events_for_ui(state.events, FALSE)
    IN  /\ TypesOf(state.events) \subseteq ClosedEventTypes
        /\ Len(shown) = Len(state.events)
        /\ \A i \in 1..Len(shown) :
              /\ shown[i].type = state.events[i].type
              /\ shown[i].iteration = state.events[i].iteration
        /\ stream_events_for_ui(yielded, FALSE)
              = stream_events_for_ui(yielded, TRUE)

\* a run that ended with events of all seven types
C28_Witness ==
    /\ pc = END
    /\ TypesOf(state.events) = ClosedEventTypes
    /\ Len(stream_events_for_ui(state.events, FALSE)) = Len(state.events)

Range(s) == { s[i] : i \in 1..Len(s) }

\* a step in which an event was emitted on the open bus
EmitStep == bus'.emitted = bus.emitted + 1

\* every subscriber has read its events in the order of their emission
ReadInOrder(b) ==
    \A s \in Subscribers :
        \A i, j \in 1..Len(b.read[s]) :
            (i < j /\ b.read[s][i] # None /\ b.read[s][j] # None) =>
                b.read[s][i] < b.read[s][j]

\* C29 as stated: an event emitted on an open bus is put on the queue of
\* every subscriber registered at that moment, and each subscriber reads its
\* events in the order of their emission
C29_EmitReachesEverySubscriber ==
    [][ /\ EmitStep =>
             \A s \in Registered(bus) :
                 bus'.queue[s] = Append(bus.queue[s], bus'.emitted)
        /\ ReadInOrder(bus') ]_vars

\* C29 as amended: the event is put on the queue of every registered
\* subscriber whose queue is not full and on no other queue; a full queue
\* is left as it is (the event is dropped for that subscriber); each
\* subscriber reads its events in the order of their emission
C29_EmitReachesEveryOpenQueue ==
    [][ /\ EmitStep =>
             \A s \in Subscribers :
                 bus'.queue[s] =
                     IF s \in Registered(bus) /\ Len(bus.queue[s]) < _QUEUE_MAXSIZE
                     THEN Append(bus.queue[s], bus'.emitted)
                     ELSE bus.queue[s]
        /\ ReadInOrder(bus') ]_vars

\* three events were emitted to two subscribers: one has read two of them in
\* order and has the third in its queue, the other read nothing, its queue
\* was full and it lost the third
C29_Witness ==
    /\ bus.emitted = _QUEUE_MAXSIZE + 1
    /\ \E s, r \in Registered(bus) :
          /\ Len(bus.read[s]) >= 2
          /\ bus.read[s][1] = 1
          /\ bus.read[s][2] = 2
          /\ bus.emitted \in Range(bus.queue[s])
          /\ bus.read[r] = <<>>
          /\ Len(bus.queue[r]) = _QUEUE_MAXSIZE
          /\ bus.emitted \notin Range(bus.queue[r])

\* C30: after close every subscriber that was registered has the None
\* sentinel in its queue or has read it, so that one that keeps reading
\* comes to read it
C30_CloseSignalsEverySubscriber ==
    bus._closed =>
        \A s \in bus.at_close : None \in Range(bus.queue[s]) \cup Range(bus.read[s])

C32_DiagnoseFrame ==
    [][ (pc = "diagnose_failure" /\ prev' = "diagnose_failure") =>
            \A k \in DOMAIN state \ {"root_cause", "failure_category",
                                     "repair_strategy", "events"} :
                state'[k] = state[k] ]_vars

\* diagnose has run in a repair iteration, on a solution and with lessons
\* learned, and has changed the root cause
C32_Witness ==
    /\ prev = "diagnose_failure"
    /\ state.iteration >= 1
    /\ state.current_code # ""
    /\ state.learning_log # <<>>
    /\ state.root_cause # ""
    /\ state.root_cause # Last(state.iteration_history).root_cause

\* C33: when the root cause is empty, the update_learning_log step makes no
\* model call, leaves the learning log as it is and leaves the event list as
\* it is, with nothing added
C33_NoRootCauseNoOp ==
    [][ ( /\ pc = "update_learning_log"
          /\ prev' = "update_learning_log"
          /\ state.root_cause = "" ) =>
            /\ last_result' = last_result
            /\ state'.learning_log = state.learning_log
            /\ state'.events = state.events ]_vars

\* the number of events of one type in an event list
CountOf(evs, ty) == Cardinality({ i \in Positions(evs) : evs[i].type = ty })

\* C34: for max_iterations = N >= 1 a run performs at most N sandbox
\* executions; a run that has ended and in which every execution failed
\* performed exactly N, its iteration counter is N and its history has N
\* records; when a run has ended, generate, create_adversarial_tests and
\* execute have run the same number of times
C34_ExecutionsBounded ==
    state.max_iterations >= 1 =>
        /\ executions <= state.max_iterations
        /\ pc = END =>
              /\ CountOf(state.events, CODE_GENERATED) = executions
              /\ CountOf(state.events, TESTS_GENERATED) = executions
              /\ CountOf(state.events, SUCCESS) + CountOf(state.events, FAILURE)
                    = executions
              /\ (\A i \in Positions(state.iteration_history) :
                      ~state.iteration_history[i].passed) =>
                    /\ executions = state.max_iterations
                    /\ state.iteration = state.max_iterations
                    /\ Len(state.iteration_history) = state.max_iterations

\* a run with max_iterations = MaxIter has ended after MaxIter executions
\* that all failed
C34_Witness ==
    /\ pc = END
    /\ state.max_iterations = MaxIter
    /\ executions = MaxIter
    /\ ~state.last_execution_passed

\* the event list ends with the events of the diagnose step and of the
\* update_learning_log step of iteration it
DiagnosedAndSummarized(evs, it) ==
    \E q \in Positions(evs) :
        /\ evs[q].type = DIAGNOSIS
        /\ evs[q].iteration = it
        /\ q < Len(evs)
        /\ \A r \in (q + 1)..Len(evs) :
              /\ evs[r].type \in {STEP, LEARNING_UPDATE}
              /\ evs[r].iteration = it

\* C35: for max_iterations >= 1 a run that ends with max_iterations_reached
\* ends by the increment step, after the diagnose and update_learning_log
\* steps of the last failed iteration; the edge from execute_solution to the
\* max_iterations node is taken only when max_iterations <= 0
C35_EndsThroughIncrement ==
    [][ /\ (pc = "execute_solution" /\ pc' = "max_iterations") =>
               state.max_iterations <= 0
        /\ ( /\ pc' = END
             /\ state'.status = "max_iterations_reached"
             /\ state'.max_iterations >= 1 ) =>
               /\ pc = "increment_iteration"
               /\ state'.iteration = state'.max_iterations
               /\ ~Last(state'.iteration_history).passed
               /\ Last(state'.iteration_history).iteration = state'.iteration - 1
               /\ DiagnosedAndSummarized(state'.events, state'.iteration - 1) ]_vars

\* a run with a budget of two iterations has ended with
\* max_iterations_reached, and its last events are the diagnosis and the
\* learning update of iteration 1
C35_Witness ==
    /\ pc = END
    /\ state.status = "max_iterations_reached"
    /\ state.max_iterations = 2
    /\ Last(state.events) = learning_update_event(1)

\* the diagnosis a record carries
DiagnosisOf(rec) ==
    [ root_cause |-> rec.root_cause, failure_category |-> rec.failure_category,
      repair_strategy |-> rec.repair_strategy ]

\* the payloads of the diagnosis events of iteration it
DiagnosesOf(evs, it) ==
    { evs[i].payload : i \in { j \in Positions(evs) :
                                  evs[j].type = DIAGNOSIS /\ evs[j].iteration = it } }

\* C36: at every moment of a run the Iteration Record of iteration 0 carries
\* empty strings as root cause, failure category and repair strategy, and
\* the record of iteration k > 0 carries what the diagnosis of iteration
\* k - 1 produced; the diagnosis of iteration k changes no record
C36_RecordCarriesPreviousDiagnosis ==
    \A i \in Positions(state.iteration_history) :
        LET rec == state.iteration_history[i]
        IN  IF rec.iteration = 0
            THEN DiagnosisOf(rec) = [ root_cause |-> "", failure_category |-> "",
                                      repair_strategy |-> "" ]
            ELSE DiagnosesOf(state.events, rec.iteration - 1) = {DiagnosisOf(rec)}

\* the failure of iteration 1 has been diagnosed, and the record of
\* iteration 1 carries another root cause: that of iteration 0
C36_Witness ==
    /\ prev = "diagnose_failure"
    /\ state.iteration = 1
    /\ Len(state.iteration_history) = 2
    /\ state.iteration_history[2].root_cause # ""
    /\ state.root_cause # ""
    /\ state.iteration_history[2].root_cause # state.root_cause

\* C37: the event list has at most one success event; when the run has
\* ended it has one exactly when the status is success; a success event is
\* the last event of the list; every failed execution has exactly one
\* failure event, every passed one none
C37_SuccessEventOnce ==
    /\ CountOf(state.events, SUCCESS) <= 1
    /\ pc = END => (CountOf(state.events, SUCCESS) = 1 <=> state.status = "success")
    /\ CountOf(state.events, SUCCESS) = 1 => Last(state.events).type = SUCCESS
    /\ \A i \in Positions(state.iteration_history) :
          CountType(state.events, FAILURE, state.iteration_history[i].iteration)
              = IF state.iteration_history[i].passed THEN 0 ELSE 1
    /\ CountOf(state.events, FAILURE) + CountOf(state.events, SUCCESS)
          = Len(state.iteration_history)

\* a run has ended with success after two failed executions: two failure
\* events and, at the end of the list, one success event
C37_Witness ==
    /\ pc = END
    /\ state.status = "success"
    /\ CountOf(state.events, FAILURE) = 2
    /\ Last(state.events) = success_event(2)

\* C38: after every node the events stream_agent has yielded are the events
\* of the state, in the same order and each once; when the graph has ended
\* they are the event list of the final state, which is what run_agent
\* returns for the same outcomes of the model calls and the sandbox
C38_StreamEqualsFinalEvents ==
    /\ yielded = state.events
    /\ total_seen = Len(state.events)

\* a run has ended by the increment step after two iterations: the stream
\* went over two increment steps, which return no events
C38_Witness ==
    /\ pc = END
    /\ prev = "increment_iteration"
    /\ state.iteration = 2
    /\ Len(yielded) >= 20

\* the events of a queue, without the sentinels
EventsIn(q) == SelectSeq(q, LAMBDA item : item # None)

IsSuffix(s, t) ==
    /\ Len(s) <= Len(t)
    /\ \A i \in 1..Len(s) : s[i] = t[Len(t) - Len(s) + i]

\* C39: in a step taken on a closed bus no event is added to a queue (the
\* events of every queue after the step are events it held before, the
\* number of emitted events stays as it is), and in every state a queue
\* holds no event after a sentinel, under every interleaving of emit, close,
\* subscribe, unsubscribe and get
C39_NoEventAfterClose ==
    [][ /\ bus._closed =>
               /\ bus'.emitted = bus.emitted
               /\ \A s \in Subscribers :
                     IsSuffix(EventsIn(bus'.queue[s]), EventsIn(bus.queue[s]))
        /\ \A s \in Subscribers :
               \A i, j \in 1..Len(bus'.queue[s]) :
                   (bus'.queue[s][i] = None /\ i < j) => bus'.queue[s][j] = None ]_vars

\* the bus was closed with an event in a queue, the sentinel is behind it,
\* and an emit has been called after the close
C39_Witness ==
    /\ bus._closed
    /\ bus.ignored
    /\ \E s \in Subscribers :
          /\ Len(bus.queue[s]) >= 2
          /\ Head(bus.queue[s]) # None
          /\ Last(bus.queue[s]) = None

\* the registered subscribers whose queue is full
FullQueues(b) == { s \in Registered(b) : Len(b.queue[s]) = _QUEUE_MAXSIZE }

\* C40: an emit that finds the queue of a subscriber full completes, leaves
\* that queue as it is and the list of subscribers as it is, and puts the
\* event on the queue of every other registered subscriber whose queue is
\* not full; what a subscriber has read, sentinels aside, is a subsequence
\* of the emitted events 1, 2, ... in their order
C40_FullQueueDropsForOneSubscriber ==
    [][ /\ (EmitStep /\ FullQueues(bus) # {}) =>
               /\ bus'._subscribers = bus._subscribers
               /\ \A s \in FullQueues(bus) : bus'.queue[s] = bus.queue[s]
               /\ \A r \in Registered(bus) \ FullQueues(bus) :
                     /\ Len(bus'.queue[r]) = Len(bus.queue[r]) + 1
                     /\ Last(bus'.queue[r]) = bus'.emitted
        /\ \A s \in Subscribers :
               LET got == EventsIn(bus'.read[s])
               IN  /\ \A i \in 1..Len(got) : got[i] \in 1..bus'.emitted
                   /\ \A i \in 1..(Len(got) - 1) : got[i] < got[i + 1] ]_vars

\* a slow subscriber lost the event emitted while its queue was full and
\* got the next one, while the other subscriber got them all
C40_Witness ==
    \E s, r \in Registered(bus) :
        /\ EventsIn(bus.read[s]) = <<1, 2, 4>>
        /\ EventsIn(bus.read[r]) = <<1, 2, 3, 4>>

====
